---- MODULE Spec2Model ----
(***************************************************************************)
(* The SvelteKit route processor of houdini (src/src/common/path.ts), with  *)
(* the import manager and the fragment composer it works with.             *)
(*                                                                         *)
(* The file holds two revisions of the processor:                          *)
(*   SvelteKitProcessor  (lines  923-1432)                                 *)
(*   svelteKitProcessor  (lines 1449-2054)                                 *)
(* The variable `processor` says which of the two is running.  A route is  *)
(* processed by three concurrent discovery operations (find_page_query,    *)
(* find_inline_queries and find_page_info), followed by the merge of the   *)
(* query targets and by add_load (route script) or the component pass.     *)
(*                                                                         *)
(* Spec is the pass of one route.  ImportSpec is a sequence of calls of    *)
(* the import manager on one script, ComposeSpec the composition of one    *)
(* operation, ComponentSpec and ScanSpec one step of the pass on a wider   *)
(* set of inputs.  WatchSpec is the schema-watch plugin, in the revision   *)
(* of src/src/common/path.ts (lines 2056-2142) and in the one of           *)
(* src/unnamed/part_000.  The variables of the other components stand      *)
(* still in each.                                                          *)
(***************************************************************************)
EXTENDS Naturals, Integers, Sequences, FiniteSets, Bags, TLC

VARIABLES
    processor,        \* which revision of the processor runs
    NODE_ENV,         \* process.env.NODE_ENV
    framework,        \* page.config.framework
    filekind,         \* "route" (+page.svelte), "route_script" (+page.ts), "other"
    page_query_file,  \* contents of the +page.gql file
    component_tags,   \* graphql literals of the route component, in walk order
    module,           \* the route script module as `import` sees it
    mock_page_info,   \* page.mock_page_info
    original_script,  \* page.script.body as the pass found it
    script,           \* page.script.body
    pc,               \* position of the processor
    discovery,        \* state of each of the three discovery operations
    page_query,       \* result of find_page_query
    inline_queries,   \* result of find_inline_queries
    page_info,        \* result of find_page_info
    queries,          \* the merged list of load targets
    preload_fn,       \* body of the generated load function (preload_fn.body.body)
    insert_index,     \* the running insertion cursor
    next_query,       \* position of the `for (const query of queries)` loop
    log,              \* what was written to console.log (a bag of lines)
    \* the import manager on its own (ImportSpec)
    doc,              \* the script body the imports are asked for
    calls,            \* the calls made so far, in order, with what each returned
    \* the fragment composer (ComposeSpec)
    composing,        \* the operation that is composed
    allDocuments,     \* the fragment documents of the project
    remaining,        \* the fragment spreads still to visit, first in first out
    included,         \* the fragments included so far, in first-visited order
    composed,         \* "idle", "running", "ok", "MissingFragment" or "FragmentCycle"
    \* the schema-watch plugin (WatchSpec)
    plugin,           \* which revision of the plugin runs: "go" or "interval_id"
    config,           \* what getConfig resolves to
    go,               \* the flag `go` of the plugin
    interval_id,      \* the variable `interval_id` of the plugin
    nbPullError,      \* the counter `nbPullError` of buildStart
    build,            \* where buildStart, and the loop it leaves behind, stand
    inflight,         \* the calls of pullSchema / writeSchema that have not settled
    timeToWait,       \* what the sleep under way was called with
    ended,            \* buildEnd has been called
    pulls,            \* the pulls started, counted up to MaxPulls
    pullsAfterEnd,    \* the pulls started after buildEnd, counted up to MaxPulls
    lastState,        \* how the last pull settled: "ok", "falsy" or "throws"
    falsyRun          \* the pulls that returned a falsy state since the last "ok"

route_vars == <<processor, NODE_ENV, framework, filekind, page_query_file, component_tags,
                module, mock_page_info, original_script, script, pc, discovery, page_query,
                inline_queries, page_info, queries, preload_fn, insert_index, next_query,
                log>>

import_vars == <<doc, calls>>

compose_vars == <<composing, allDocuments, remaining, included, composed>>

watch_vars == <<plugin, config, go, interval_id, nbPullError, build, inflight, timeToWait,
                ended, pulls, pullsAfterEnd, lastState, falsyRun>>

vars == <<route_vars, import_vars, compose_vars, watch_vars>>

inputs == <<processor, NODE_ENV, framework, filekind, page_query_file, component_tags,
            module, mock_page_info, original_script>>

----------------------------------------------------------------------------
(* Bounds *)

\* total size of a route's inputs: tags + page-query file + exported names +
\* houdini_load entries + imports already present
MaxSize == 3

----------------------------------------------------------------------------
(* Values *)

CompiledQueryKind == "HoudiniQuery"

\* what JavaScript reads from a property that is not there
Undefined == "<undefined>"

SeqsUpTo(S, n) == UNION {[1..k -> S] : k \in 0..n}

Range(s) == {s[k] : k \in 1..Len(s)}

\* Array.prototype.splice(at, 0, ...items)
Splice(s, at, items) == SubSeq(s, 1, at) \o items \o SubSeq(s, at + 1, Len(s))

\* graphql definitions
NonNullVariable == [nonNull |-> TRUE, hasDefault |-> FALSE]

Operation(op, name, variableDefinitions) ==
    [kind |-> "OperationDefinition", operation |-> op, name |-> name,
     variableDefinitions |-> variableDefinitions]

QueryA == Operation("query", "A", <<>>)
QueryB == Operation("query", "B", <<NonNullVariable>>)
QueryC == Operation("query", "C", <<>>)
MutationM == Operation("mutation", "M", <<>>)
FragmentF ==
    [kind |-> "FragmentDefinition", operation |-> "", name |-> "F",
     variableDefinitions |-> <<>>]

\* a graphql literal of the component: its document and its syntactic parent
Tag(definitions, parent) == [definitions |-> definitions, parent |-> parent]

ComponentTags ==
    { Tag(<<QueryA>>, "CallExpression"),
      Tag(<<QueryB>>, "CallExpression"),
      Tag(<<QueryA>>, "VariableDeclarator"),
      Tag(<<MutationM>>, "CallExpression") }

\* the +page.gql file
NoFile == [exists |-> FALSE, parses |-> FALSE, definitions |-> <<>>]
Malformed == [exists |-> TRUE, parses |-> FALSE, definitions |-> <<>>]
Document(definitions) == [exists |-> TRUE, parses |-> TRUE, definitions |-> definitions]

PageQueryFiles ==
    { NoFile, Malformed, Document(<<FragmentF>>), Document(<<QueryA>>),
      Document(<<QueryB>>), Document(<<QueryC>>) }

\* the values a module can hold in its houdini_load list
Store(name, kind, variables) ==
    [type |-> "object", name |-> name, kind |-> kind, variables |-> variables,
     parses |-> FALSE, definitions |-> <<>>]

StringEntry(parses, definitions) ==
    [type |-> "string", name |-> Undefined, kind |-> Undefined, variables |-> FALSE,
     parses |-> parses, definitions |-> definitions]

LoadEntries ==
    { Store("A", CompiledQueryKind, FALSE),
      Store("B", CompiledQueryKind, TRUE),
      Store("M", "HoudiniMutation", FALSE),
      Store(Undefined, Undefined, FALSE),
      StringEntry(TRUE, <<QueryA>>),
      StringEntry(FALSE, <<>>) }

\* houdini_load as the module exports it: absent, one value, or a list
Absent == [shape |-> "absent", items |-> <<>>]

ExportNames == {"load", "beforeLoad", "afterLoad", "AVariables", "BVariables"}

\* the module as the dynamic import sees it
Module(status, exports, houdini_load) ==
    [status |-> status, exports |-> exports, houdini_load |-> houdini_load]

NotFound == Module("ERR_MODULE_NOT_FOUND", {}, Absent)
ImportError == Module("error", {}, Absent)

\* Object.keys(module)
ObjectKeys(m) ==
    m.exports \cup (IF m.houdini_load.shape = "absent" THEN {} ELSE {"houdini_load"})

\* PageScriptInfo
PageScriptInfo(load, exports) == [load |-> load, exports |-> exports]
QueryInfo(name, variables) == [name |-> name, variables |-> variables]

NoMock == [mocked |-> FALSE, info |-> PageScriptInfo(<<>>, {})]
Mock(info) == [mocked |-> TRUE, info |-> info]

\* statements of page.script.body
TopLevel(type, id, source, guard, context, variables) ==
    [type |-> type, id |-> id, source |-> source, guard |-> guard, context |-> context,
     variables |-> variables]

ImportDeclaration(id, source) == TopLevel("ImportDeclaration", id, source, "", "", "")
UserStatement == TopLevel("ExpressionStatement", "user", "", "", "", "")
\* export async function load(context) { ... }: its body is preload_fn
ExportLoad == TopLevel("ExportNamedDeclaration", "load", "", "", "", "")

\* a LoadTarget's store_id: an identifier, or houdini_load[i]
Identifier(name) == [expr |-> "Identifier", name |-> name, index |-> 0]
MemberOfLoad(i) == [expr |-> "MemberExpression", name |-> "houdini_load", index |-> i]

LoadTarget(name, variables, store_id) ==
    [name |-> name, variables |-> variables, store_id |-> store_id]

NoTarget == LoadTarget("", FALSE, Identifier(""))

\* config.storeImportPath and the store's conventional name
StoreName(name) == "GQL_" \o name
StoreImportPath(name) == "$houdini/stores/" \o name

InitialScripts ==
    { <<>>, <<UserStatement>>,
      <<ImportDeclaration(StoreName("A"), StoreImportPath("A")), UserStatement>> }

ImportsIn(body) == {k \in 1..Len(body) : body[k].type = "ImportDeclaration"}

----------------------------------------------------------------------------
(* The inputs of one pass *)

Weight(file) == IF file.exists THEN 1 ELSE 0

Subsets(S, n) == {e \in SUBSET S : Cardinality(e) <= n}

HoudiniLoads(n) ==
    {Absent}
    \cup {[shape |-> "scalar", items |-> <<e>>] : e \in {x \in LoadEntries : n >= 1}}
    \cup {[shape |-> "list", items |-> l] : l \in SeqsUpTo(LoadEntries, n)}

\* the modules whose exports and houdini_load have at most n elements together
Modules(n) ==
    {NotFound, ImportError}
    \cup UNION {{Module("ok", e, h) : h \in HoudiniLoads(n - Cardinality(e))} :
                  e \in Subsets(ExportNames, n)}

MockInfos(n) ==
    {NoMock}
    \cup UNION {{Mock(PageScriptInfo(l, e)) :
                   l \in SeqsUpTo({QueryInfo("A", FALSE), QueryInfo("B", TRUE)},
                                  n - Cardinality(e))} :
                  e \in Subsets(ExportNames \cup {"houdini_load"}, n)}

Discoveries == {"find_page_query", "find_inline_queries", "find_page_info"}

InitInputs ==
    /\ processor \in {"SvelteKitProcessor", "svelteKitProcessor"}
    /\ framework \in {"kit", "svelte"}
    /\ filekind \in {"route", "route_script", "other"}
    /\ NODE_ENV \in {"production", "test"}
    /\ LET size == IF framework = "kit" /\ filekind # "other" THEN MaxSize ELSE 0 IN
         /\ script \in {b \in InitialScripts : Cardinality(ImportsIn(b)) <= size}
         /\ page_query_file \in
              {f \in PageQueryFiles : Cardinality(ImportsIn(script)) + Weight(f) <= size}
         /\ LET left == size - Cardinality(ImportsIn(script)) - Weight(page_query_file)
            IN  \E tags \in 0..left :
                  /\ component_tags \in [1..tags -> ComponentTags]
                  /\ IF NODE_ENV = "test"
                       THEN module = NotFound /\ mock_page_info \in MockInfos(left - tags)
                       ELSE module \in Modules(left - tags) /\ mock_page_info = NoMock

\* no call of the import manager, and no composition, is under way
ImportsIdle == doc = <<>> /\ calls = <<>>

ComposeIdle ==
    /\ composing = <<>> /\ allDocuments = <<>> /\ remaining = <<>> /\ included = <<>>
    /\ composed = "idle"

\* what getConfig resolves to: config.apiUrl, config.schemaPath and
\* config.schemaPollInterval, which is <<>> for null and <<n>> for the number n
Config(apiUrl, schemaPath, schemaPollInterval) ==
    [apiUrl |-> apiUrl, schemaPath |-> schemaPath, schemaPollInterval |-> schemaPollInterval]

\* the plugin was made and buildStart was not called
PluginMade ==
    /\ go = TRUE /\ interval_id = "null"
    /\ nbPullError = 0 /\ build = "idle" /\ inflight = 0 /\ timeToWait = 0
    /\ ended = FALSE /\ pulls = 0 /\ pullsAfterEnd = 0
    /\ lastState = "none" /\ falsyRun = 0

WatchIdle == plugin = "go" /\ config = Config("", "", <<>>) /\ PluginMade

Init ==
    /\ ImportsIdle /\ ComposeIdle /\ WatchIdle
    /\ InitInputs
    /\ original_script = script
    /\ pc = "start"
    /\ discovery = [op \in Discoveries |-> "idle"]
    /\ page_query = <<>>
    /\ inline_queries = <<>>
    /\ page_info = PageScriptInfo(<<>>, {})
    /\ queries = <<>>
    /\ preload_fn = <<>>
    /\ insert_index = 0
    /\ next_query = 0
    /\ log = EmptyBag

----------------------------------------------------------------------------
(* Collaborators the source imports *)

\* true iff some variable is non-null and has no default value
operation_requires_variables(operation) ==
    \E v \in Range(operation.variableDefinitions) : v.nonNull /\ ~v.hasDefault

\* ensure_imports that does not look for the import in the body
ensure_imports_Again(body, id, sourceModule) ==
    [body |-> <<ImportDeclaration(id, sourceModule)>> \o body, id |-> id, added |-> 1]

\* ensure_imports for one symbol: the import is added at the top of the body
\* unless the body already imports that symbol from that module
ensure_imports(body, id, sourceModule) ==
    IF \E k \in ImportsIn(body) : body[k].id = id /\ body[k].source = sourceModule
    THEN [body |-> body, id |-> id, added |-> 0]
    ELSE [body |-> <<ImportDeclaration(id, sourceModule)>> \o body, id |-> id, added |-> 1]

store_import(body, name) == ensure_imports(body, StoreName(name), StoreImportPath(name))

\* store_import for each name of a list, in order
RECURSIVE store_imports(_, _)
store_imports(body, names) ==
    IF names = <<>> THEN body
    ELSE store_imports(store_import(body, Head(names)).body, Tail(names))

IsQuery(defn) == defn.kind = "OperationDefinition" /\ defn.operation = "query"

\* Array.prototype.find: the first element that satisfies IsQuery, as a sequence
\* of length 0 or 1
RECURSIVE FindQuery(_)
FindQuery(definitions) ==
    IF definitions = <<>> THEN <<>>
    ELSE IF IsQuery(Head(definitions)) THEN <<Head(definitions)>>
    ELSE FindQuery(Tail(definitions))

query_variable_fn(name) == name \o "Variables"

Line(text) == SetToBag({text})

----------------------------------------------------------------------------
(* svelteKitProcessor, lines 1449-2054 *)

\* the processor is entered; the two early returns, then the three discovery
\* operations are started
Start ==
    /\ pc = "start"
    /\ IF framework # "kit" \/ filekind = "other"
         THEN pc' = "done" /\ UNCHANGED discovery
         ELSE pc' = "discover" /\ discovery' = [op \in Discoveries |-> "pending"]
    /\ UNCHANGED <<import_vars, compose_vars, watch_vars>>
    /\ UNCHANGED <<inputs, script, page_query, inline_queries, page_info, queries,
                   preload_fn, insert_index, next_query, log>>

\* the await of Promise.all: it throws as soon as one operation has rejected
Settle(op, outcome) ==
    /\ discovery' = [discovery EXCEPT ![op] = outcome]
    /\ pc' = IF outcome = "rejected" /\ pc = "discover" THEN "raised" ELSE pc

\* the result of find_page_query on a file and a script body
find_page_query(file, body) ==
    IF ~file.exists
      THEN [outcome |-> "done", target |-> <<>>, body |-> body, log |-> EmptyBag]
    ELSE IF ~file.parses
      \* graphql.parse throws
      THEN [outcome |-> "rejected", target |-> <<>>, body |-> body, log |-> EmptyBag]
    ELSE IF FindQuery(file.definitions) = <<>>
      THEN [outcome |-> "done", target |-> <<>>, body |-> body,
            log |-> Line("page.gql must contain a query")]
    ELSE LET definition == FindQuery(file.definitions)[1]
             import == store_import(body, definition.name)
         IN  [outcome |-> "done",
              target |-> <<LoadTarget(definition.name,
                                      operation_requires_variables(definition),
                                      Identifier(import.id))>>,
              body |-> import.body, log |-> EmptyBag]

\* FindPageQuery that yields no target once the inline scan has settled
FindPageQuery_Late ==
    /\ discovery["find_page_query"] = "pending"
    /\ LET r == find_page_query(page_query_file, script)
       IN  /\ Settle("find_page_query", r.outcome)
           /\ page_query' = IF discovery["find_inline_queries"] = "done"
                              THEN <<>> ELSE r.target
           /\ script' = r.body
           /\ log' = log (+) r.log
    /\ UNCHANGED <<import_vars, compose_vars, watch_vars>>
    /\ UNCHANGED <<inputs, inline_queries, page_info, queries, preload_fn, insert_index,
                   next_query>>

FindPageQuery ==
    /\ discovery["find_page_query"] = "pending"
    /\ LET r == find_page_query(page_query_file, script)
       IN  /\ Settle("find_page_query", r.outcome)
           /\ page_query' = r.target
           /\ script' = r.body
           /\ log' = log (+) r.log
    /\ UNCHANGED <<import_vars, compose_vars, watch_vars>>
    /\ UNCHANGED <<inputs, inline_queries, page_info, queries, preload_fn, insert_index,
                   next_query>>

\* walk_inline_queries that takes the first query of a literal, wherever the
\* query stands in the document and whatever the literal is part of
RECURSIVE walk_inline_queries_AnyQuery(_)
walk_inline_queries_AnyQuery(tags) ==
    IF tags = <<>> THEN <<>>
    ELSE (IF FindQuery(Head(tags).definitions) # <<>>
            THEN <<QueryInfo(FindQuery(Head(tags).definitions)[1].name,
                             operation_requires_variables(
                                 FindQuery(Head(tags).definitions)[1]))>>
            ELSE <<>>)
         \o walk_inline_queries_AnyQuery(Tail(tags))

\* walk_graphql_tags with the `where` and `tag` callbacks of find_inline_queries:
\* the queries pushed, in walk order
RECURSIVE walk_inline_queries(_)
walk_inline_queries(tags) ==
    IF tags = <<>> THEN <<>>
    ELSE LET tag == Head(tags)
             operation == tag.definitions[1]
             where == \E defn \in Range(tag.definitions) : IsQuery(defn)
         IN  (IF where /\ IsQuery(operation) /\ tag.parent = "CallExpression"
                THEN <<QueryInfo(operation.name, operation_requires_variables(operation))>>
                ELSE <<>>)
             \o walk_inline_queries(Tail(tags))

Names(qs) == [k \in 1..Len(qs) |-> qs[k].name]

find_inline_queries(tags, body) ==
    LET found == walk_inline_queries(tags)
    IN  [targets |-> [k \in 1..Len(found) |->
                        LoadTarget(found[k].name, found[k].variables,
                                   Identifier(store_import(body, found[k].name).id))],
         body |-> store_imports(body, Names(found))]

\* SvelteKitProcessor, lines 936-946: the name of an inline query's store. On a
\* route the store is read from the props, on a route script it is imported.
inline_query_store(is_route, body, name) ==
    IF is_route
      THEN [body |-> body, id |-> "_houdini_" \o name]
      ELSE [body |-> store_import(body, name).body, id |-> store_import(body, name).id]

RECURSIVE inline_query_stores(_, _, _)
inline_query_stores(is_route, body, names) ==
    IF names = <<>> THEN body
    ELSE inline_query_stores(is_route, inline_query_store(is_route, body, Head(names)).body,
                             Tail(names))

\* find_inline_queries of ./query, as SvelteKitProcessor calls it (lines 951-962):
\* every inline query of the script gets the store inline_query_store names
find_inline_queries_SvelteKit(is_route, tags, body) ==
    LET found == walk_inline_queries(tags)
    IN  [targets |-> [k \in 1..Len(found) |->
                        LoadTarget(found[k].name, found[k].variables,
                                   Identifier(inline_query_store(is_route, body,
                                                                 found[k].name).id))],
         body |-> inline_query_stores(is_route, body, Names(found))]

FindInlineQueries ==
    /\ discovery["find_inline_queries"] = "pending"
    /\ LET r == IF processor = "svelteKitProcessor"
                  THEN find_inline_queries(component_tags, script)
                  ELSE find_inline_queries_SvelteKit(filekind = "route", component_tags,
                                                     script)
       IN  /\ Settle("find_inline_queries", "done")
           /\ inline_queries' = r.targets
           /\ script' = r.body
    /\ UNCHANGED <<import_vars, compose_vars, watch_vars>>
    /\ UNCHANGED <<inputs, page_query, page_info, queries, preload_fn, insert_index,
                   next_query, log>>

nil == PageScriptInfo(<<>>, {})

\* the loop over module.houdini_load of find_page_info (lines 2002-2027)
RECURSIVE load_stores(_, _, _)
load_stores(items, seen, load) ==
    IF items = <<>> THEN [outcome |-> "done", load |-> load, log |-> EmptyBag]
    ELSE LET store == Head(items)
         IN  IF store.name \in seen
               THEN [outcome |-> "nil", load |-> <<>>,
                     log |-> Line("a store can only appear once")]
             ELSE IF store.type # "object"
               \* `'kind' in store` throws a TypeError on a primitive
               THEN [outcome |-> "rejected", load |-> <<>>, log |-> EmptyBag]
             ELSE IF store.kind = Undefined
               THEN [outcome |-> "nil", load |-> <<>>,
                     log |-> Line("you must pass stores to houdini_load")]
             ELSE IF store.kind # CompiledQueryKind
               THEN [outcome |-> "nil", load |-> <<>>,
                     log |-> Line("you must pass query stores to houdini_load")]
             ELSE load_stores(Tail(items), seen \cup {store.name},
                              Append(load, QueryInfo(store.name, store.variables)))

\* find_page_info without the catch around the import of the module
find_page_info_Uncaught(env, mock, m) ==
    IF env = "test"
      THEN [outcome |-> "done", info |-> IF mock.mocked THEN mock.info ELSE nil,
            log |-> EmptyBag]
    ELSE IF m.status # "ok"
      THEN [outcome |-> "rejected", info |-> nil, log |-> EmptyBag]
    ELSE IF m.houdini_load.shape = "absent"
      THEN [outcome |-> "done", info |-> nil, log |-> EmptyBag]
    ELSE IF m.houdini_load.shape # "list"
      THEN [outcome |-> "done", info |-> nil, log |-> Line("houdini_load must be a list")]
    ELSE LET r == load_stores(m.houdini_load.items, {}, <<>>)
         IN  IF r.outcome = "done"
               THEN [outcome |-> "done", info |-> PageScriptInfo(r.load, ObjectKeys(m)),
                     log |-> EmptyBag]
             ELSE IF r.outcome = "nil"
               THEN [outcome |-> "done", info |-> nil, log |-> r.log]
             ELSE [outcome |-> "rejected", info |-> nil, log |-> EmptyBag]

\* find_page_info of svelteKitProcessor, lines 1970-2034
find_page_info(env, mock, m) ==
    IF env = "test"
      THEN [outcome |-> "done", info |-> IF mock.mocked THEN mock.info ELSE nil,
            log |-> EmptyBag]
    ELSE IF m.status # "ok"
      THEN [outcome |-> "done", info |-> nil, log |-> EmptyBag]
    ELSE IF m.houdini_load.shape = "absent"
      THEN [outcome |-> "done", info |-> nil, log |-> EmptyBag]
    ELSE IF m.houdini_load.shape # "list"
      THEN [outcome |-> "done", info |-> nil, log |-> Line("houdini_load must be a list")]
    ELSE LET r == load_stores(m.houdini_load.items, {}, <<>>)
         IN  IF r.outcome = "done"
               THEN [outcome |-> "done", info |-> PageScriptInfo(r.load, ObjectKeys(m)),
                     log |-> EmptyBag]
             ELSE IF r.outcome = "nil"
               THEN [outcome |-> "done", info |-> nil, log |-> r.log]
             ELSE [outcome |-> "rejected", info |-> nil, log |-> EmptyBag]

\* the loop over module.houdini_load of SvelteKitProcessor's find_page_info
\* (lines 1362-1415); exports is what nil.exports holds by then
RECURSIVE load_documents(_, _, _, _)
load_documents(items, seen, load, exports) ==
    IF items = <<>>
      THEN [info |-> PageScriptInfo(load, exports), log |-> EmptyBag]
    ELSE LET document == Head(items)
             query == FindQuery(document.definitions)
             rest(s, l) == load_documents(Tail(items), s, l, exports)
         IN  IF document.type = "string"
               THEN IF ~document.parses
                      THEN [info |-> rest(seen, load).info,
                            log |-> Line("we got a string that isn't a graphql query")
                                    (+) rest(seen, load).log]
                    ELSE IF query = <<>>
                      THEN [info |-> PageScriptInfo(<<>>, exports),
                            log |-> Line("houdini_load must contain store references")]
                    ELSE IF query[1].name \in seen
                      THEN [info |-> PageScriptInfo(<<>>, exports),
                            log |-> Line("a store can only appear once")]
                    ELSE rest(seen \cup {query[1].name},
                              Append(load, QueryInfo(query[1].name,
                                                     operation_requires_variables(query[1]))))
             ELSE IF document.kind # CompiledQueryKind
               THEN [info |-> rest(seen, load).info,
                     log |-> Line("you must pass query stores to houdini_load")
                             (+) rest(seen, load).log]
             ELSE rest(seen, Append(load, QueryInfo(document.name, document.variables)))

\* find_page_info of SvelteKitProcessor, lines 1308-1422
find_page_info_SvelteKit(env, mock, m) ==
    IF env = "test"
      THEN [outcome |-> "done", info |-> IF mock.mocked THEN mock.info ELSE nil,
            log |-> EmptyBag]
    ELSE IF m.status # "ok"
      THEN [outcome |-> "done", info |-> nil,
            log |-> IF m.status = "ERR_MODULE_NOT_FOUND" THEN EmptyBag ELSE Line(m.status)]
    ELSE IF m.houdini_load.shape = "absent"
      THEN [outcome |-> "done", info |-> PageScriptInfo(<<>>, ObjectKeys(m)),
            log |-> EmptyBag]
    ELSE LET r == load_documents(m.houdini_load.items, {}, <<>>, ObjectKeys(m))
         IN  [outcome |-> "done", info |-> r.info, log |-> r.log]

FindPageInfo ==
    /\ discovery["find_page_info"] = "pending"
    /\ LET r == IF processor = "svelteKitProcessor"
                  THEN find_page_info(NODE_ENV, mock_page_info, module)
                  ELSE find_page_info_SvelteKit(NODE_ENV, mock_page_info, module)
       IN  /\ Settle("find_page_info", r.outcome)
           /\ page_info' = r.info
           /\ log' = log (+) r.log
    /\ UNCHANGED <<import_vars, compose_vars, watch_vars>>
    /\ UNCHANGED <<inputs, script, page_query, inline_queries, queries, preload_fn,
                   insert_index, next_query>>

\* merge_queries with the page query put first
merge_queries_PageFirst(inline, page, info) ==
    page \o inline
    \o [k \in 1..Len(info.load) |->
          LoadTarget(info.load[k].name, info.load[k].variables, MemberOfLoad(k - 1))]

\* lines 1467-1474: the merged list of load targets
merge_queries(inline, page, info) ==
    inline \o page
    \o [k \in 1..Len(info.load) |->
          LoadTarget(info.load[k].name, info.load[k].variables, MemberOfLoad(k - 1))]

\* Promise.all has resolved: the targets are merged and the pass of the file starts
Merge ==
    /\ pc = "discover"
    /\ \A op \in Discoveries : discovery[op] = "done"
    /\ queries' = merge_queries(inline_queries, page_query, page_info)
    /\ pc' = IF processor = "svelteKitProcessor"
               THEN IF filekind = "route" THEN "process_component" ELSE "add_load"
             ELSE IF filekind = "route" /\ Len(inline_queries) > 0 THEN "route_stores"
             ELSE IF filekind = "route_script" THEN "add_load"
             ELSE "done"
    /\ UNCHANGED <<import_vars, compose_vars, watch_vars>>
    /\ UNCHANGED <<inputs, script, discovery, page_query, inline_queries, page_info,
                   preload_fn, insert_index, next_query, log>>

----------------------------------------------------------------------------
(* The statements of the generated load function *)

NoData == [expr |-> "none", properties |-> <<>>]

Statement(stmt, name, store_id, fn, computed, blocking, data) ==
    [stmt |-> stmt, name |-> name, store_id |-> store_id, fn |-> fn,
     computed |-> computed, blocking |-> blocking, data |-> data]

\* const houdini_context = new RequestContext(context)
ContextDeclaration == Statement("context", "houdini_context", Identifier(""), "", FALSE, FALSE, NoData)
\* const inputs = {}
InputsDeclaration == Statement("inputs", "inputs", Identifier(""), "", FALSE, FALSE, NoData)
\* const promises = []
PromisesDeclaration == Statement("promises", "promises", Identifier(""), "", FALSE, FALSE, NoData)
\* return { ...houdini_context.returnValue, <what> }
ReturnStatement(what) == Statement("return", what, Identifier(""), "", FALSE, FALSE, NoData)

\* inputs[name] = houdini_context.computeInput({variableFunction: fn, artifact:
\* store_id.artifact}) when computed, inputs[name] = {} otherwise
AssignInput(name, computed, store_id) ==
    Statement("assign", name, IF computed THEN store_id ELSE Identifier(""),
              IF computed THEN query_variable_fn(name) ELSE "", computed, FALSE, NoData)

\* promises.push(callee.fetch({variables: inputs[name], event: context, blocking}))
PushFetch(name, callee, blocking) ==
    Statement("push", name, callee, "fetch", FALSE, blocking, NoData)

\* promises.push(load_fn({variables: inputs[name], event: context, blocking}))
PushLoad(name, load_fn, blocking) ==
    Statement("push", name, load_fn, "", FALSE, blocking, NoData)

\* const result = <how>(promises), awaited
AwaitAll(how) == Statement("await", how, Identifier(""), "", FALSE, FALSE, NoData)

\* await houdini_context.invokeLoadHook({variant, hookFn, input, data})
InvokeLoadHook(variant, hookFn, data) ==
    Statement("hook", variant, Identifier(""), hookFn, FALSE, FALSE, data)

----------------------------------------------------------------------------
(* add_load of svelteKitProcessor, lines 1611-1809 *)

\* missing_variable_fns that finds nothing missing
missing_variable_fns_None(qs, exports) == EmptyBag

\* lines 1625-1639: the lines logged for the missing variable functions
RECURSIVE missing_variable_fns(_, _)
missing_variable_fns(qs, exports) ==
    IF qs = <<>> THEN EmptyBag
    ELSE (IF query_variable_fn(Head(qs).name) \notin exports /\ Head(qs).variables
            THEN Line("could not find required variable function: "
                      \o query_variable_fn(Head(qs).name))
            ELSE EmptyBag)
         (+) missing_variable_fns(Tail(qs), exports)

\* the same of SvelteKitProcessor, lines 1027-1043, which logs two more lines
RECURSIVE missing_variable_fns_SvelteKit(_, _)
missing_variable_fns_SvelteKit(qs, exports) ==
    IF qs = <<>> THEN EmptyBag
    ELSE (IF query_variable_fn(Head(qs).name) \notin exports /\ Head(qs).variables
            THEN Line("") (+) Line("page_info.exports")
                 (+) Line("could not find required variable function: "
                          \o query_variable_fn(Head(qs).name))
            ELSE EmptyBag)
         (+) missing_variable_fns_SvelteKit(Tail(qs), exports)

\* lines 1620-1642 (1022-1046): the early return on an exported load, and the
\* validation
AddLoadValidate ==
    /\ pc = "add_load"
    /\ IF "load" \in page_info.exports
         THEN pc' = "done" /\ UNCHANGED log
         ELSE LET missing == IF processor = "svelteKitProcessor"
                               THEN missing_variable_fns(queries, page_info.exports)
                               ELSE missing_variable_fns_SvelteKit(queries,
                                                                   page_info.exports)
              IN  /\ log' = log (+) missing
                  /\ pc' = IF missing # EmptyBag THEN "done" ELSE "create"
    /\ UNCHANGED <<import_vars, compose_vars, watch_vars>>
    /\ UNCHANGED <<inputs, script, discovery, page_query, inline_queries, page_info,
                   queries, preload_fn, insert_index, next_query>>

\* the block statement the function is built with: lines 1667-1698, and lines
\* 1073-1101 of SvelteKitProcessor
new_preload_fn(p) ==
    IF p = "svelteKitProcessor"
      THEN <<ContextDeclaration, InputsDeclaration, PromisesDeclaration,
             ReturnStatement("inputs")>>
      ELSE <<ContextDeclaration, PromisesDeclaration, InputsDeclaration,
             ReturnStatement("result")>>

\* lines 1644-1708 (1048-1111): the import of RequestContext, the function with its
\* four statements, its export, and the cursor
AddLoadCreate ==
    /\ pc = "create"
    /\ script' = Append(ensure_imports(script, "RequestContext",
                                       "$houdini/runtime/lib/network").body,
                        ExportLoad)
    /\ preload_fn' = new_preload_fn(processor)
    /\ insert_index' = 3
    /\ next_query' = 1
    /\ pc' = "queries"
    /\ UNCHANGED <<import_vars, compose_vars, watch_vars>>
    /\ UNCHANGED <<inputs, discovery, page_query, inline_queries, page_info, queries, log>>

\* lines 1712-1769: the two statements of one query are spliced in at the cursor,
\* which is incremented once
AddLoadSplice ==
    /\ pc = "queries"
    /\ processor = "svelteKitProcessor"
    /\ next_query <= Len(queries)
    /\ LET query == queries[next_query]
       IN  preload_fn' =
             Splice(preload_fn, insert_index,
                    <<AssignInput(query.name,
                                  query_variable_fn(query.name) \in page_info.exports,
                                  query.store_id),
                      PushFetch(query.name, query.store_id,
                                "afterLoad" \in page_info.exports)>>)
    /\ insert_index' = insert_index + 1
    /\ pc' = "added"
    /\ UNCHANGED <<import_vars, compose_vars, watch_vars>>
    /\ UNCHANGED <<inputs, script, discovery, page_query, inline_queries, page_info,
                   queries, next_query, log>>

\* AddLoadAdvance without its increment of the cursor
AddLoadAdvance_NoIncrement ==
    /\ pc = "added"
    /\ next_query' = next_query + 1
    /\ pc' = "queries"
    /\ UNCHANGED <<import_vars, compose_vars, watch_vars>>
    /\ UNCHANGED <<inputs, script, discovery, page_query, inline_queries, page_info,
                   queries, preload_fn, insert_index, log>>

\* lines 1771-1772: "we added 2 elements"
AddLoadAdvance ==
    /\ pc = "added"
    /\ insert_index' = insert_index + 1
    /\ next_query' = next_query + 1
    /\ pc' = "queries"
    /\ UNCHANGED <<import_vars, compose_vars, watch_vars>>
    /\ UNCHANGED <<inputs, script, discovery, page_query, inline_queries, page_info,
                   queries, preload_fn, log>>

\* SvelteKitProcessor, lines 1114-1165: the imports of one query, and its input
\* assignment spliced in at the cursor
AddLoadAssign ==
    /\ pc = "queries"
    /\ processor = "SvelteKitProcessor"
    /\ next_query <= Len(queries)
    /\ LET query == queries[next_query]
           computed == query_variable_fn(query.name) \in page_info.exports
           load_fn == ensure_imports(script, "load_" \o query.name,
                                     StoreImportPath(query.name))
       IN  /\ script' = IF computed THEN store_import(load_fn.body, query.name).body
                                    ELSE load_fn.body
           /\ preload_fn' =
                Splice(preload_fn, insert_index,
                       <<AssignInput(query.name, computed,
                                     Identifier(StoreName(query.name)))>>)
    /\ insert_index' = insert_index + 1
    /\ pc' = "assigned"
    /\ UNCHANGED <<import_vars, compose_vars, watch_vars>>
    /\ UNCHANGED <<inputs, discovery, page_query, inline_queries, page_info, queries,
                   next_query, log>>

\* SvelteKitProcessor, lines 1167-1189: the fetch of the query spliced in at the cursor
AddLoadPush ==
    /\ pc = "assigned"
    /\ LET query == queries[next_query]
       IN  preload_fn' =
             Splice(preload_fn, insert_index,
                    <<PushLoad(query.name, Identifier("load_" \o query.name),
                               "afterLoad" \in page_info.exports)>>)
    /\ insert_index' = insert_index + 1
    /\ next_query' = next_query + 1
    /\ pc' = "queries"
    /\ UNCHANGED <<import_vars, compose_vars, watch_vars>>
    /\ UNCHANGED <<inputs, script, discovery, page_query, inline_queries, page_info,
                   queries, log>>

\* lines 1775-1791 (1191-1216): the joint await
AddLoadAwait ==
    /\ pc = "queries"
    /\ next_query > Len(queries)
    /\ preload_fn' =
         Splice(preload_fn, insert_index,
                <<AwaitAll(IF processor = "svelteKitProcessor" THEN "Promise.all"
                           ELSE "Object.assign")>>)
    /\ insert_index' = insert_index + 1
    /\ pc' = "hooks"
    /\ UNCHANGED <<import_vars, compose_vars, watch_vars>>
    /\ UNCHANGED <<inputs, script, discovery, page_query, inline_queries, page_info,
                   queries, next_query, log>>

\* load_hook_statements with the results taken in the opposite order
load_hook_statements_Reversed(name, qs) ==
    <<InvokeLoadHook(IF name = "afterLoad" THEN "after" ELSE "before", name,
                     IF name = "afterLoad"
                       THEN [expr |-> "ObjectExpression",
                             properties |-> [k \in 1..Len(qs) |->
                                               [key |-> qs[k].name, index |-> Len(qs) - k]]]
                       ELSE NoData)>>

\* lines 1922-1968
load_hook_statements(name, qs) ==
    <<InvokeLoadHook(IF name = "afterLoad" THEN "after" ELSE "before", name,
                     IF name = "afterLoad"
                       THEN [expr |-> "ObjectExpression",
                             properties |-> [k \in 1..Len(qs) |->
                                               [key |-> qs[k].name, index |-> k - 1]]]
                       ELSE NoData)>>

\* the same of SvelteKitProcessor, lines 1274-1306: the after hook gets the result
\* object as its data
load_hook_statements_SvelteKit(name, qs) ==
    <<InvokeLoadHook(IF name = "afterLoad" THEN "after" ELSE "before", name,
                     IF name = "afterLoad"
                       THEN [expr |-> "Identifier", properties |-> <<>>]
                       ELSE NoData)>>

\* lines 1793-1808 (1218-1233): the hooks, at fixed places of the body
add_hooks(body, exports, before, after) ==
    LET with_before ==
          IF "beforeLoad" \in exports THEN Splice(body, 1, before) ELSE body
    IN  IF "afterLoad" \in exports
          THEN Splice(with_before, Len(with_before) - 1, after)
          ELSE with_before

hook_statements(p, name, qs) ==
    IF p = "svelteKitProcessor" THEN load_hook_statements(name, qs)
    ELSE load_hook_statements_SvelteKit(name, qs)

AddLoadHooks ==
    /\ pc = "hooks"
    /\ preload_fn' = add_hooks(preload_fn, page_info.exports,
                               hook_statements(processor, "beforeLoad", queries),
                               hook_statements(processor, "afterLoad", queries))
    /\ pc' = "done"
    /\ UNCHANGED <<import_vars, compose_vars, watch_vars>>
    /\ UNCHANGED <<inputs, script, discovery, page_query, inline_queries, page_info,
                   queries, insert_index, next_query, log>>

----------------------------------------------------------------------------
(* process_component of svelteKitProcessor, lines 1495-1609 *)

\* $: _houdini_inputs = $$props.data.inputs
InputsStatement ==
    TopLevel("LabeledStatement", "_houdini_inputs", "$$props.data.inputs", "", "", "")
\* const _houdini_context_DO_NOT_USE = getHoudiniContext()
ContextStatement ==
    TopLevel("VariableDeclaration", "_houdini_context_DO_NOT_USE", "getHoudiniContext",
             "", "", "")
\* $: browser && store.fetch({context, variables: _houdini_inputs[name]})
ReactiveFetch(store, name) ==
    TopLevel("LabeledStatement", store, "fetch", "browser", "_houdini_context_DO_NOT_USE",
             name)

\* first_non_import that takes the top of the body, imports or not
first_non_import_Top(body) == 0

\* lines 1504-1511
first_non_import(body) ==
    IF \E k \in 1..Len(body) : body[k].type # "ImportDeclaration"
      THEN (CHOOSE k \in 1..Len(body) :
              /\ body[k].type # "ImportDeclaration"
              /\ \A j \in 1..(k - 1) : body[j].type = "ImportDeclaration") - 1
      ELSE Len(body)

\* the number of imports store_import adds for the names of a list, in order
RECURSIVE stores_added(_, _)
stores_added(body, names) ==
    IF names = <<>> THEN 0
    ELSE store_import(body, Head(names)).added
         + stores_added(store_import(body, Head(names)).body, Tail(names))

\* process_component with the reactive statements written last target first
process_component_Reversed(body, qs) ==
    LET context == ensure_imports(body, "getHoudiniContext", "$houdini/runtime/lib/context")
        browser == ensure_imports(context.body, "browser", "$app/env")
        imported == store_imports(browser.body, Names(qs))
        at == first_non_import(body) + context.added + browser.added
              + stores_added(browser.body, Names(qs))
    IN  Splice(Splice(Splice(imported, at, <<InputsStatement>>),
                      at + 1, <<ContextStatement>>),
               at + 2, [k \in 1..Len(qs) |->
                          ReactiveFetch(StoreName(qs[Len(qs) + 1 - k].name),
                                        qs[Len(qs) + 1 - k].name)])

process_component(body, qs) ==
    LET context == ensure_imports(body, "getHoudiniContext", "$houdini/runtime/lib/context")
        browser == ensure_imports(context.body, "browser", "$app/env")
        imported == store_imports(browser.body, Names(qs))
        at == first_non_import(body) + context.added + browser.added
              + stores_added(browser.body, Names(qs))
    IN  Splice(Splice(Splice(imported, at, <<InputsStatement>>),
                      at + 1, <<ContextStatement>>),
               at + 2, [k \in 1..Len(qs) |-> ReactiveFetch(StoreName(qs[k].name), qs[k].name)])

ProcessComponent ==
    /\ pc = "process_component"
    /\ processor = "svelteKitProcessor"
    /\ script' = process_component(script, queries)
    /\ pc' = "done"
    /\ UNCHANGED <<import_vars, compose_vars, watch_vars>>
    /\ UNCHANGED <<inputs, discovery, page_query, inline_queries, page_info, queries,
                   preload_fn, insert_index, next_query, log>>

----------------------------------------------------------------------------
(* The route pass of SvelteKitProcessor, lines 975-1001 *)

RECURSIVE Join(_)
Join(names) ==
    IF names = <<>> THEN ""
    ELSE IF Len(names) = 1 THEN names[1]
    ELSE names[1] \o "," \o Join(Tail(names))

\* $: ({A: _houdini_A, ...} = $$props.data)
StoresFromProps(names) ==
    TopLevel("LabeledStatement", "_houdini_", "$$props.data", "", "", Join(names))

\* find_insert_index of ../ast: the place after the leading imports
find_insert_index(body) == first_non_import(body)

ProcessRoute ==
    /\ pc = "route_stores"
    /\ script' = Splice(script, find_insert_index(script),
                        <<StoresFromProps(Names(inline_queries))>>)
    /\ pc' = "done"
    /\ UNCHANGED <<import_vars, compose_vars, watch_vars>>
    /\ UNCHANGED <<inputs, discovery, page_query, inline_queries, page_info, queries,
                   preload_fn, insert_index, next_query, log>>

----------------------------------------------------------------------------
(* The import manager on its own: calls of ensure_imports and store_import *)
(* on one script, in any order                                             *)

MaxCalls == 3

RouteIdle ==
    /\ processor = "svelteKitProcessor" /\ NODE_ENV = "test"
    /\ framework = "svelte" /\ filekind = "other"
    /\ page_query_file = NoFile /\ component_tags = <<>>
    /\ module = NotFound /\ mock_page_info = NoMock
    /\ original_script = <<>> /\ script = <<>>
    /\ pc = "done"
    /\ discovery = [op \in Discoveries |-> "idle"]
    /\ page_query = <<>> /\ inline_queries = <<>>
    /\ page_info = PageScriptInfo(<<>>, {})
    /\ queries = <<>> /\ preload_fn = <<>>
    /\ insert_index = 0 /\ next_query = 0
    /\ log = EmptyBag

ImportInit ==
    /\ RouteIdle /\ ComposeIdle /\ WatchIdle
    /\ doc \in InitialScripts
    /\ calls = <<>>

\* one call, on the script as the calls before left it
Called(pair, r) ==
    /\ Len(calls) < MaxCalls
    /\ doc' = r.body
    /\ calls' = Append(calls, [pair |-> pair, id |-> r.id, added |-> r.added,
                               inserted |-> Len(r.body) - Len(doc)])
    /\ UNCHANGED <<route_vars, compose_vars, watch_vars>>

EnsureImport ==
    \E pair \in {<<"getHoudiniContext", "$houdini/runtime/lib/context">>,
                  <<"browser", "$app/env">>} :
        Called(pair, ensure_imports(doc, pair[1], pair[2]))

EnsureStoreImport ==
    \E name \in {"A", "B"} :
        Called(<<StoreName(name), StoreImportPath(name)>>, store_import(doc, name))

ImportNext == EnsureImport \/ EnsureStoreImport

ImportSpec == ImportInit /\ [][ImportNext]_vars

----------------------------------------------------------------------------
(* process_component on its own: every script of a route component, every   *)
(* list of load targets                                                     *)

\* the most load targets of one component
MaxTargets == 3

\* the imports process_component needs, and one it does not
ComponentImports ==
    <<ImportDeclaration("getHoudiniContext", "$houdini/runtime/lib/context"),
      ImportDeclaration("browser", "$app/env"),
      ImportDeclaration(StoreName("A"), StoreImportPath("A")),
      ImportDeclaration(StoreName("B"), StoreImportPath("B")),
      ImportDeclaration("onMount", "svelte")>>

\* any of these imports at the top, then nothing, a statement, or a statement
\* and a late import
ComponentScripts ==
    {SelectSeq(ComponentImports, LAMBDA i : i \in present) \o rest :
       present \in SUBSET Range(ComponentImports),
       rest \in {<<>>, <<UserStatement>>,
                 <<UserStatement, ImportDeclaration("browser", "$app/env")>>}}

ComponentLoads ==
    SeqsUpTo({QueryInfo(name, FALSE) : name \in {"A", "B", "C"}}
             \cup {QueryInfo("A", TRUE)}, MaxTargets)

\* the pass of a +page.svelte has merged the targets of a mocked page info
ComponentInit ==
    /\ ImportsIdle /\ ComposeIdle /\ WatchIdle
    /\ processor = "svelteKitProcessor" /\ NODE_ENV = "test"
    /\ framework = "kit" /\ filekind = "route"
    /\ page_query_file = NoFile /\ component_tags = <<>>
    /\ module = NotFound
    /\ mock_page_info \in {Mock(PageScriptInfo(load, {})) : load \in ComponentLoads}
    /\ script \in ComponentScripts
    /\ original_script = script
    /\ pc = "process_component"
    /\ discovery = [op \in Discoveries |-> "done"]
    /\ page_query = <<>> /\ inline_queries = <<>>
    /\ page_info = mock_page_info.info
    /\ queries = merge_queries(inline_queries, page_query, page_info)
    /\ preload_fn = <<>>
    /\ insert_index = 0 /\ next_query = 0
    /\ log = EmptyBag

ComponentNext == ProcessComponent

ComponentSpec == ComponentInit /\ [][ComponentNext]_vars

----------------------------------------------------------------------------
(* find_inline_queries on its own: every list of graphql literals of a page *)
(* component                                                                *)

\* the most graphql literals of one component
MaxTags == 2

SubscriptionS == Operation("subscription", "S", <<>>)

\* a literal holds one definition, or one definition and a query after it; it
\* is the argument of a call or the initializer of a declaration
ScanTags ==
    {Tag(definitions, parent) :
       definitions \in {<<first>> : first \in {QueryA, QueryB, MutationM, SubscriptionS,
                                                 FragmentF}}
                       \cup {<<first, QueryC>> : first \in {QueryA, QueryB, MutationM,
                                                             SubscriptionS, FragmentF}},
       parent \in {"CallExpression", "VariableDeclarator"}}

\* the pass of a route has started its three discovery operations
ScanInit ==
    /\ ImportsIdle /\ ComposeIdle /\ WatchIdle
    /\ processor \in {"SvelteKitProcessor", "svelteKitProcessor"}
    /\ NODE_ENV = "production" /\ framework = "kit"
    /\ filekind \in {"route", "route_script"}
    /\ page_query_file = NoFile
    /\ component_tags \in SeqsUpTo(ScanTags, MaxTags)
    /\ module = NotFound /\ mock_page_info = NoMock
    /\ script \in InitialScripts
    /\ original_script = script
    /\ pc = "discover"
    /\ discovery = [op \in Discoveries |-> "pending"]
    /\ page_query = <<>> /\ inline_queries = <<>>
    /\ page_info = PageScriptInfo(<<>>, {})
    /\ queries = <<>> /\ preload_fn = <<>>
    /\ insert_index = 0 /\ next_query = 0
    /\ log = EmptyBag

ScanNext == FindInlineQueries

ScanSpec == ScanInit /\ [][ScanNext]_vars

----------------------------------------------------------------------------
(* The fragment composer: compose(operation, allDocuments), a breadth-first *)
(* traversal of the fragment spreads, one fragment spread per step          *)

\* the most fragment spreads one definition holds
MaxSpreads == 2

FragmentNames == {"A", "B", "C"}

\* the spreads of a selection, in the order they are written
InOrder(names) == SelectSeq(<<"A", "B", "C">>, LAMBDA n : n \in names)

Spreads == {names \in SUBSET FragmentNames : Cardinality(names) <= MaxSpreads}

OperationDocument(spreads) == [kind |-> "operation", name |-> "Foo", spreads |-> spreads]
FragmentDocument(name, spreads) == [kind |-> "fragment", name |-> name, spreads |-> spreads]

FragmentDocuments ==
    {FragmentDocument(name, spreads) : name \in FragmentNames, spreads \in Spreads}

\* fragment names are unique project-wide
DocumentLists ==
    {l \in SeqsUpTo(FragmentDocuments, Cardinality(FragmentNames)) :
       \A i, j \in 1..Len(l) : i # j => l[i].name # l[j].name}

Defined(name) == \E d \in Range(allDocuments) : d.name = name
Definition(name) == CHOOSE d \in Range(allDocuments) : d.name = name

\* a spread waiting for its visit, with the definition it was found in
Spread(name, from) == [name |-> name, from |-> from]
SpreadsOf(d) == [k \in 1..Len(InOrder(d.spreads)) |-> Spread(InOrder(d.spreads)[k], d.name)]

\* the fragments the spreads of a set of fragments lead to, the set included
RECURSIVE ReachedFrom(_, _)
ReachedFrom(names, steps) ==
    IF steps = 0 THEN names
    ELSE ReachedFrom(names \cup UNION {Definition(n).spreads : n \in {m \in names : Defined(m)}},
                     steps - 1)
Reached(names) == ReachedFrom(names, Cardinality(FragmentNames))

ComposeInit ==
    /\ RouteIdle /\ ImportsIdle /\ WatchIdle
    /\ composing \in {OperationDocument(spreads) : spreads \in Spreads}
    /\ allDocuments \in DocumentLists
    /\ remaining = SpreadsOf(composing)
    /\ included = <<>>
    /\ composed = "running"

\* the next spread is of a fragment that is not included yet: it is included, and
\* its own spreads are collected
ComposeInclude ==
    /\ composed = "running" /\ remaining # <<>>
    /\ Head(remaining).name \notin Range(included)
    /\ Defined(Head(remaining).name)
    /\ included' = Append(included, Head(remaining).name)
    /\ remaining' = Tail(remaining) \o SpreadsOf(Definition(Head(remaining).name))
    /\ UNCHANGED <<composing, allDocuments, composed>>
    /\ UNCHANGED <<route_vars, import_vars, watch_vars>>

\* ComposeRevisit with every fragment that is met again taken for a cycle
ComposeRevisit_Fails ==
    /\ composed = "running" /\ remaining # <<>>
    /\ Head(remaining).name \in Range(included)
    /\ composed' = "FragmentCycle"
    /\ UNCHANGED <<composing, allDocuments, remaining, included>>
    /\ UNCHANGED <<route_vars, import_vars, watch_vars>>

\* the next spread is of a fragment already included: it is not expanded again,
\* and when the fragment leads back to the definition that spreads it, the
\* composition fails
ComposeRevisit ==
    /\ composed = "running" /\ remaining # <<>>
    /\ Head(remaining).name \in Range(included)
    /\ IF Head(remaining).from \in Reached({Head(remaining).name})
         THEN composed' = "FragmentCycle" /\ UNCHANGED remaining
         ELSE remaining' = Tail(remaining) /\ UNCHANGED composed
    /\ UNCHANGED <<composing, allDocuments, included>>
    /\ UNCHANGED <<route_vars, import_vars, watch_vars>>

\* the next spread names a fragment that is not in allDocuments
ComposeMissing ==
    /\ composed = "running" /\ remaining # <<>>
    /\ Head(remaining).name \notin Range(included)
    /\ ~Defined(Head(remaining).name)
    /\ composed' = "MissingFragment"
    /\ UNCHANGED <<composing, allDocuments, remaining, included>>
    /\ UNCHANGED <<route_vars, import_vars, watch_vars>>

\* nothing is left to visit
ComposeDone ==
    /\ composed = "running" /\ remaining = <<>>
    /\ composed' = "ok"
    /\ UNCHANGED <<composing, allDocuments, remaining, included>>
    /\ UNCHANGED <<route_vars, import_vars, watch_vars>>

ComposeNext == ComposeInclude \/ ComposeRevisit \/ ComposeMissing \/ ComposeDone

ComposeSpec == ComposeInit /\ [][ComposeNext]_vars

\* the definitions of the composed document: the operation, then the fragments
ComposedDocument == <<composing.name>> \o included

----------------------------------------------------------------------------
(* HoudiniWatchSchemaPlugin: src/src/common/path.ts, lines 2065-2142 (the   *)
(* revision with the flag `go`), and src/unnamed/part_000 (the revision     *)
(* with `interval_id`)                                                      *)

\* the pulls that are counted, the most failed pulls in a row, the longest
\* poll interval
MaxPulls == 3
MaxErrors == 2
MaxInterval == 2

WatchConfigs ==
    {Config(apiUrl, schemaPath, interval) :
       apiUrl \in {"", "http://localhost:4000/graphql"},
       schemaPath \in {"", "schema.json", "*.graphql"},
       interval \in {<<>>} \cup {<<n>> : n \in -1..MaxInterval}}

WatchInit ==
    /\ RouteIdle /\ ImportsIdle /\ ComposeIdle
    /\ plugin \in {"go", "interval_id"}
    /\ config \in WatchConfigs
    /\ PluginMade

\* glob.hasMagic
hasMagic(schemaPath) == schemaPath = "*.graphql"

\* pullSchema (writeSchema) is called; the two counts stop at MaxPulls
StartPull(position) ==
    /\ build' = position
    /\ inflight' = inflight + 1
    /\ pulls' = IF pulls < MaxPulls THEN pulls + 1 ELSE pulls
    /\ pullsAfterEnd' = IF ended /\ pullsAfterEnd < MaxPulls THEN pullsAfterEnd + 1
                                                            ELSE pullsAfterEnd

\* pull_errors with a pull that throws counted as a failed one
pull_errors_Thrown(schemaState, n) == IF schemaState = "ok" THEN 0 ELSE n + 1

\* path.ts, lines 2099-2110: nbPullError after a pull; the catch leaves it
pull_errors(schemaState, n) ==
    IF schemaState = "throws" THEN n
    ELSE IF schemaState = "ok" THEN 0
    ELSE n + 1

\* buildStart is called and awaits getConfig
BuildStart ==
    /\ build = "idle"
    /\ build' = "config"
    /\ UNCHANGED <<plugin, config, go, interval_id, nbPullError, inflight, timeToWait, ended,
                   pulls, pullsAfterEnd, lastState, falsyRun>>
    /\ UNCHANGED <<route_vars, import_vars, compose_vars>>

\* ConfigLoaded that polls a schema path that is a glob
ConfigLoaded_GlobPolled ==
    /\ build = "config"
    /\ IF config.apiUrl = "" \/ config.schemaPollInterval = <<>>
         THEN build' = "returned" /\ UNCHANGED <<inflight, pulls, pullsAfterEnd>>
         ELSE StartPull("first_pull")
    /\ UNCHANGED <<plugin, config, go, interval_id, nbPullError, timeToWait, ended,
                   lastState, falsyRun>>
    /\ UNCHANGED <<route_vars, import_vars, compose_vars>>

\* getConfig has resolved: the three early returns, else the first pull
\* (path.ts, lines 2075-2125; part_000, lines 16-54)
ConfigLoaded ==
    /\ build = "config"
    /\ IF \/ config.apiUrl = ""
          \/ config.schemaPath # "" /\ hasMagic(config.schemaPath)
          \/ config.schemaPollInterval = <<>>
         THEN build' = "returned" /\ UNCHANGED <<inflight, pulls, pullsAfterEnd>>
         ELSE StartPull("first_pull")
    /\ UNCHANGED <<plugin, config, go, interval_id, nbPullError, timeToWait, ended,
                   lastState, falsyRun>>
    /\ UNCHANGED <<route_vars, import_vars, compose_vars>>

\* a pull settles.  In the revision with `go` a throw is caught; in the other
\* it rejects buildStart, or the detached call of the loop.  After the first
\* pull buildStart returns or sleeps one interval; after a polling pull the loop
\* sleeps.
PullSettles ==
    /\ build \in {"first_pull", "poll_pull"}
    /\ \E schemaState \in {"ok", "falsy", "throws"} :
         /\ schemaState = "falsy" => nbPullError < MaxErrors /\ falsyRun < MaxErrors
         /\ inflight' = inflight - 1
         /\ lastState' = schemaState
         /\ falsyRun' = CASE schemaState = "ok" -> 0
                           [] schemaState = "falsy" -> falsyRun + 1
                           [] schemaState = "throws" -> falsyRun
         /\ nbPullError' = IF plugin = "go" THEN pull_errors(schemaState, nbPullError)
                                             ELSE nbPullError
         /\ IF plugin = "interval_id" /\ schemaState = "throws"
              THEN build' = "rejected" /\ UNCHANGED timeToWait
            ELSE IF build = "first_pull"
              THEN IF config.schemaPollInterval[1] <= 0
                     THEN build' = "returned" /\ UNCHANGED timeToWait
                     ELSE build' = "first_wait" /\ timeToWait' = config.schemaPollInterval[1]
            ELSE /\ build' = "poll_wait"
                 /\ timeToWait' =
                      IF plugin = "go"
                        THEN config.schemaPollInterval[1]
                             + config.schemaPollInterval[1] * nbPullError'
                        ELSE config.schemaPollInterval[1]
    /\ UNCHANGED <<plugin, config, go, interval_id, ended, pulls, pullsAfterEnd>>
    /\ UNCHANGED <<route_vars, import_vars, compose_vars>>

\* SleepElapsed of a timer that fires while the pull is still under way
SleepElapsed_Interval ==
    /\ build \in {"first_wait", "poll_wait", "poll_pull"}
    /\ StartPull("poll_pull")
    /\ timeToWait' = 0
    /\ UNCHANGED <<plugin, config, go, interval_id, nbPullError, ended, lastState,
                   falsyRun>>
    /\ UNCHANGED <<route_vars, import_vars, compose_vars>>

\* a sleep is over: the loop is entered, or goes round unless `go` was cleared
\* (path.ts, lines 2116-2120 and 2133-2136; part_000, lines 48-49 and 62-65)
SleepElapsed ==
    /\ build \in {"first_wait", "poll_wait"}
    /\ IF build = "poll_wait" /\ plugin = "go" /\ ~go
         THEN build' = "stopped" /\ UNCHANGED <<inflight, pulls, pullsAfterEnd>>
         ELSE StartPull("poll_pull")
    /\ timeToWait' = 0
    /\ UNCHANGED <<plugin, config, go, interval_id, nbPullError, ended, lastState,
                   falsyRun>>
    /\ UNCHANGED <<route_vars, import_vars, compose_vars>>

\* BuildEnd that leaves the flag `go` as it is
BuildEnd_Kept ==
    /\ build # "idle" /\ ~ended
    /\ ended' = TRUE
    /\ UNCHANGED <<plugin, config, go, interval_id, nbPullError, build, inflight, timeToWait,
                   pulls, pullsAfterEnd, lastState, falsyRun>>
    /\ UNCHANGED <<route_vars, import_vars, compose_vars>>

\* buildEnd (path.ts, lines 2138-2140; part_000, lines 67-71)
BuildEnd ==
    /\ build # "idle" /\ ~ended
    /\ ended' = TRUE
    /\ go' = IF plugin = "go" THEN FALSE ELSE go
    /\ interval_id' = IF plugin = "interval_id" /\ interval_id # "null"
                        THEN "cleared" ELSE interval_id
    /\ UNCHANGED <<plugin, config, nbPullError, build, inflight, timeToWait, pulls,
                   pullsAfterEnd, lastState, falsyRun>>
    /\ UNCHANGED <<route_vars, import_vars, compose_vars>>

WatchNext == BuildStart \/ ConfigLoaded \/ PullSettles \/ SleepElapsed \/ BuildEnd

WatchSpec == WatchInit /\ [][WatchNext]_vars

\* getConfig resolves, every pull settles and every sleep is over in the end
WatchFairSpec ==
    /\ WatchSpec
    /\ WF_vars(ConfigLoaded) /\ WF_vars(PullSettles) /\ WF_vars(SleepElapsed)

----------------------------------------------------------------------------
(* What the claims speak of *)

\* the names the route script exports: the keys of the module, which the test
\* environment replaces by the exports of page.mock_page_info
ScriptExports ==
    IF NODE_ENV = "test" THEN mock_page_info.info.exports
    ELSE IF module.status = "ok" THEN ObjectKeys(module)
    ELSE {}

\* a load function was added to the script
Synthesized == \E k \in 1..Len(script) : script[k] = ExportLoad

\* add_load has returned
AddLoadReturned == filekind = "route_script" /\ pc = "done"

\* the places (from 1) of the statements of one kind in the generated body
Places(stmt) == {k \in 1..Len(preload_fn) : preload_fn[k].stmt = stmt}
Hooks(variant) == {k \in Places("hook") : preload_fn[k].name = variant}

\* the targets are merged
Merged == pc \in {"add_load", "create", "queries", "added", "assigned", "hooks",
                  "process_component", "route_stores", "done"}

\* the explicit-list targets of the resolved page info
ExplicitTargets ==
    [k \in 1..Len(page_info.load) |->
       LoadTarget(page_info.load[k].name, page_info.load[k].variables,
                  MemberOfLoad(k - 1))]

\* the generated body without its hook calls, and its fetches in dispatch order
WithoutHooks == SelectSeq(preload_fn, LAMBDA s : s.stmt # "hook")
Fetches == SelectSeq(preload_fn, LAMBDA s : s.stmt = "push")

\* the generated body is complete up to the hooks: the three declarations, one
\* (assign, fetch) pair per target in target order, the joint await, the return
PairsInOrder ==
    LET body == WithoutHooks
        n == Len(queries)
    IN  /\ Len(body) = 2 * n + 5
        /\ Cardinality(Places("assign")) = n /\ Cardinality(Places("push")) = n
        /\ {body[k].stmt : k \in 1..3} = {"context", "inputs", "promises"}
        /\ \A i \in 1..n :
             /\ body[2 * i + 2].stmt = "assign" /\ body[2 * i + 2].name = queries[i].name
             /\ body[2 * i + 3].stmt = "push" /\ body[2 * i + 3].name = queries[i].name
        /\ body[2 * n + 4].stmt = "await"
        /\ body[2 * n + 5].stmt = "return"
        /\ preload_fn[Len(preload_fn)].stmt = "return"


----------------------------------------------------------------------------

Next ==
    \/ Start
    \/ FindPageQuery
    \/ FindInlineQueries
    \/ FindPageInfo
    \/ Merge
    \/ AddLoadValidate
    \/ AddLoadCreate
    \/ AddLoadSplice
    \/ AddLoadAdvance
    \/ AddLoadAssign
    \/ AddLoadPush
    \/ AddLoadAwait
    \/ AddLoadHooks
    \/ ProcessComponent
    \/ ProcessRoute

Spec == Init /\ [][Next]_vars

----------------------------------------------------------------------------
(* The claims *)

\* C1: when the route script module exports load, no load function is appended to
\* its script, whether or not houdini_load is exported too. (The claim says as well
\* that the import list stays as it was; the discovery operations add the store
\* imports of the targets they find, as the snapshot of the test "existing loads
\* aren't modified" records.)
C1_ExistingLoadUntouched ==
    (framework = "kit" /\ filekind = "route_script" /\ "load" \in ScriptExports)
    => ~Synthesized

\* C2: when some query target requires variables and the route script does not
\* export its <Name>Variables function, the pass leaves the script untouched: no
\* load function, no statement, no import.
C2_MissingVariablesUntouched ==
    (/\ filekind = "route_script"
     /\ Merged
     /\ \E k \in 1..Len(queries) :
          queries[k].variables /\ query_variable_fn(queries[k].name) \notin ScriptExports)
    => (script = original_script /\ ~Synthesized)

\* C3: when the route script exports beforeLoad the generated body holds exactly
\* one before-hook call, after the request context and before every input
\* assignment and every fetch; when it does not, the body holds none.
C3_BeforeHookPlaced ==
    (AddLoadReturned /\ Synthesized)
    => IF "beforeLoad" \in ScriptExports
         THEN /\ Cardinality(Hooks("before")) = 1
              /\ \A h \in Hooks("before") :
                   /\ \A c \in Places("context") : c < h
                   /\ \A k \in Places("assign") \cup Places("push") : h < k
         ELSE Hooks("before") = {}

\* C4: when the route script exports afterLoad the generated body holds exactly
\* one after-hook call, after the joint await and every fetch and right before
\* the return, which is last; when it does not, the body holds none.
C4_AfterHookPlaced ==
    (AddLoadReturned /\ Synthesized)
    => IF "afterLoad" \in ScriptExports
         THEN /\ Cardinality(Hooks("after")) = 1
              /\ \A h \in Hooks("after") :
                   /\ \A k \in Places("await") \cup Places("push") : k < h
                   /\ h = Len(preload_fn) - 1
                   /\ preload_fn[Len(preload_fn)].stmt = "return"
         ELSE Hooks("after") = {}

\* C5 as stated: the generated body is the declarations, the n pairs in target
\* order, the joint await and the return, and the cursor is the index of the return
\* statement after every insertion.
C5_CursorAlwaysAtReturn ==
    /\ (preload_fn # <<>> /\ pc \in {"hooks", "done"}) => PairsInOrder
    /\ preload_fn # <<>> => insert_index = Len(preload_fn) - 1

\* C5 as amended: the same body; the cursor is the index of the return statement
\* after every loop iteration and after the joint await. It is one short between
\* the two-statement splice of svelteKitProcessor and the increment that follows,
\* and the hooks, inserted at fixed places, do not move it.
C5_PairsAndCursor ==
    /\ (preload_fn # <<>> /\ pc \in {"hooks", "done"}) => PairsInOrder
    /\ preload_fn # <<>> => preload_fn[Len(preload_fn)].stmt = "return"
    /\ pc \in {"queries", "assigned", "hooks"} => insert_index = Len(preload_fn) - 1
    /\ pc = "added" => insert_index = Len(preload_fn) - 2
    /\ (pc = "done" /\ preload_fn # <<>>)
         => insert_index = Len(preload_fn) - 1 - Cardinality(Places("hook"))

C5_Witness ==
    /\ pc = "done" /\ Synthesized
    /\ Len(queries) >= 2
    /\ Places("hook") # {}

\* C6: every fetch of a generated load function has the same blocking flag, which
\* is true exactly when the route script exports afterLoad.
C6_BlockingIffAfterLoad ==
    \A k \in Places("push") : preload_fn[k].blocking = ("afterLoad" \in ScriptExports)

\* C7: the data map of the after-hook call of svelteKitProcessor has one binding
\* per target; binding i maps the name of target i to result[i], and the i-th
\* fetch dispatched is the fetch of target i.
C7_AfterHookData ==
    processor = "svelteKitProcessor"
    => \A h \in Hooks("after") :
         LET properties == preload_fn[h].data.properties
         IN  /\ preload_fn[h].data.expr = "ObjectExpression"
             /\ Len(properties) = Len(queries)
             /\ Len(Fetches) = Len(queries)
             /\ \A i \in 1..Len(queries) :
                  /\ properties[i].key = queries[i].name
                  /\ properties[i].index = i - 1
                  /\ Fetches[i].name = queries[i].name
                  /\ Fetches[i].store_id = queries[i].store_id

C7_Witness ==
    /\ processor = "svelteKitProcessor"
    /\ Hooks("after") # {}
    /\ Len(queries) >= 2
    /\ queries[1].name # queries[2].name

\* C8 as stated: the merged list is the page-query target, then the inline
\* targets, then the explicit-list targets.
C8_PageQueryFirst ==
    Merged => queries = page_query \o inline_queries \o ExplicitTargets

\* C8 as amended: the merged list is the inline targets in discovery order, then
\* the page-query target, then the explicit-list targets in list order; nothing
\* is dropped, so its length is the sum of the three.
C8_InlineFirst ==
    Merged
    => /\ queries = inline_queries \o page_query \o ExplicitTargets
       /\ Len(queries) = Len(inline_queries) + Len(page_query) + Len(page_info.load)

C8_Witness ==
    /\ Merged
    /\ inline_queries # <<>> /\ page_query # <<>> /\ page_info.load # <<>>
    /\ inline_queries[1].name # page_query[1].name

\* C9: a +page.gql file that does not parse is skipped: the processor does not
\* raise, and find_page_query ends without a target.
C9_MalformedPageQuerySkipped ==
    (page_query_file.exists /\ ~page_query_file.parses)
    => pc # "raised" /\ discovery["find_page_query"] # "rejected"

\* the structural validation errors of a route: the +page.gql file holds no query;
\* an entry of houdini_load is no query store, or a name is twice in houdini_load
PageQueryWithoutQuery ==
    page_query_file.parses /\ FindQuery(page_query_file.definitions) = <<>>
InvalidHoudiniLoad ==
    /\ NODE_ENV # "test"
    /\ LET items == module.houdini_load.items
       IN  \/ \E k \in 1..Len(items) :
                items[k].type # "object" \/ items[k].kind # CompiledQueryKind
           \/ \E i, j \in 1..Len(items) : i # j /\ items[i].name = items[j].name

\* C10: on a structural validation error the resolution of the offending source
\* raises no exception. (The claim says as well that the result is empty and that
\* no load function is synthesized for the route; the targets of the other
\* sources are still loaded.)
C10_StructuralErrorEmpty ==
    /\ PageQueryWithoutQuery => discovery["find_page_query"] # "rejected"
    /\ InvalidHoudiniLoad => discovery["find_page_info"] # "rejected"

\* what find_page_info takes for a query-store reference: a store object of the
\* query kind and, in SvelteKitProcessor (lines 1365-1403), the text of a document
\* with a query
Recognized(entry) ==
    \/ entry.type = "object" /\ entry.kind = CompiledQueryKind
    \/ /\ processor = "SvelteKitProcessor"
       /\ entry.type = "string" /\ entry.parses /\ FindQuery(entry.definitions) # <<>>

\* the name find_page_info reads from an entry
EntryName(entry) ==
    IF entry.type = "string"
      THEN IF entry.parses /\ FindQuery(entry.definitions) # <<>>
             THEN FindQuery(entry.definitions)[1].name ELSE Undefined
      ELSE entry.name

\* find_page_info has read the houdini_load list of the module
ExplicitListResolved ==
    /\ NODE_ENV # "test" /\ module.status = "ok" /\ module.houdini_load.shape = "list"
    /\ discovery["find_page_info"] = "done"

\* C11: the resolution of the houdini_load list is all-or-nothing: with a name
\* that is there twice, or an entry that is no query-store reference, the resolved
\* list is empty; otherwise it has one target per entry, in list order, and the
\* names are pairwise distinct.
C11_ExplicitListAllOrNothing ==
    ExplicitListResolved
    => LET items == module.houdini_load.items
           load == page_info.load
       IN  IF \/ \E k \in 1..Len(items) : ~Recognized(items[k])
              \/ \E i, j \in 1..Len(items) :
                   i # j /\ EntryName(items[i]) = EntryName(items[j])
             THEN load = <<>>
             ELSE /\ Len(load) = Len(items)
                  /\ \A k \in 1..Len(items) : load[k].name = EntryName(items[k])
                  /\ \A i, j \in 1..Len(load) : i # j => load[i].name # load[j].name

\* C12: the generated load function calls the before hook exactly when the route
\* script module exports beforeLoad, and the after hook exactly when it exports
\* afterLoad, whether or not the module exports houdini_load as well.
C12_HooksIffExported ==
    (AddLoadReturned /\ Synthesized)
    => /\ (Hooks("before") # {}) <=> ("beforeLoad" \in ScriptExports)
       /\ (Hooks("after") # {}) <=> ("afterLoad" \in ScriptExports)

\* the import of the route script module fails
ModuleFails == NODE_ENV # "test" /\ module.status # "ok"

\* C13: a failure of the import of the route script module does not leave the
\* processor: find_page_info settles with the empty metadata, the processor raises
\* only when another operation (find_page_query) has rejected, and the await of
\* the three operations is never stuck: find_page_info, while it is pending, can
\* settle, and once the three have settled the targets can be merged and the pass
\* goes on.
C13_ModuleFailureCaught ==
    ModuleFails
    => /\ discovery["find_page_info"] # "rejected"
       /\ discovery["find_page_info"] = "done" => page_info = nil
       /\ pc = "raised" => discovery["find_page_query"] = "rejected"
       /\ (pc = "discover" /\ discovery["find_page_info"] = "pending")
            => ENABLED FindPageInfo
       /\ (pc = "discover" /\ \A op \in Discoveries : discovery[op] = "done")
            => ENABLED Merge

C13_Witness ==
    /\ module.status = "error" /\ NODE_ENV # "test"
    /\ discovery["find_page_info"] = "done"
    /\ pc = "done"
    /\ filekind = "route_script" /\ Synthesized

\* C14: none of the three discovery operations changes the script of the route:
\* until all three have completed and the targets are merged, the script is as
\* the pass found it.
C14_NoMutationDuringDiscovery ==
    pc \in {"start", "discover", "raised"} => script = original_script

\* C15: the input assignment of a target is a computeInput call with the function
\* <Name>Variables exactly when the route script exports <Name>Variables, whether
\* the target requires variables or not; otherwise the input is the empty object.
C15_ComputeInputIffExported ==
    \A k \in Places("assign") :
        LET variable_fn == query_variable_fn(preload_fn[k].name)
        IN  IF variable_fn \in ScriptExports
              THEN preload_fn[k].computed /\ preload_fn[k].fn = variable_fn
              ELSE ~preload_fn[k].computed /\ preload_fn[k].fn = ""

\* the (symbol, source module) pairs the processor asks imports for
ImportPairs ==
    { <<"getHoudiniContext", "$houdini/runtime/lib/context">>,
      <<"browser", "$app/env">>,
      <<"RequestContext", "$houdini/runtime/lib/network">> }
    \cup {<<StoreName(n), StoreImportPath(n)>> : n \in {"A", "B", "C"}}
    \cup {<<"load_" \o n, StoreImportPath(n)>> : n \in {"A", "B", "C"}}

\* the import statements of a pair in a body
ImportsOf(body, pair) ==
    {k \in ImportsIn(body) : body[k].id = pair[1] /\ body[k].source = pair[2]}

\* C16: import management is idempotent. After any sequence of calls on one
\* script every pair that was asked for has exactly one import statement, no pair
\* has two, each call reports the number of statements it inserted, and a call
\* for a pair that was asked for before returns the same identifier and reports
\* zero insertions.
C16_ImportsIdempotent ==
    /\ \A pair \in ImportPairs : Cardinality(ImportsOf(doc, pair)) <= 1
    /\ \A i \in 1..Len(calls) :
         /\ Cardinality(ImportsOf(doc, calls[i].pair)) = 1
         /\ calls[i].added = calls[i].inserted
         /\ \A j \in 1..(i - 1) :
              calls[j].pair = calls[i].pair
              => calls[i].id = calls[j].id /\ calls[i].added = 0

\* a pair was asked for twice, and the first call inserted its import
C16_Witness ==
    \E i, j \in 1..Len(calls) :
        i < j /\ calls[i].pair = calls[j].pair /\ calls[i].added = 1

\* the fragments the operation refers to, directly or through other fragments
Referenced == Reached(composing.spreads)

\* the references of the operation form a directed acyclic graph of fragments
\* that allDocuments holds
ReferencesFormDag ==
    /\ \A f \in Referenced : Defined(f)
    /\ \A f \in Referenced : f \notin Reached(Definition(f).spreads)

\* C17: when the fragment references of the operation form a DAG, compose does
\* not fail and goes on until it is done; the composed document is then the
\* operation, first, and every fragment it refers to, each once -- a set that the
\* order of allDocuments has no part in.
C17_ComposeClosure ==
    (composed # "idle" /\ ReferencesFormDag)
    => /\ composed \in {"running", "ok"}
       /\ composed = "running" => ENABLED ComposeNext
       /\ composed = "ok"
            => /\ ComposedDocument[1] = composing.name
               /\ Range(included) = Referenced
               /\ Len(included) = Cardinality(Referenced)
               /\ composing.name \notin Range(included)

\* a diamond: a fragment spread by two definitions of the composed document
C17_Witness ==
    /\ composed = "ok" /\ ReferencesFormDag
    /\ Len(included) = 3
    /\ \E f \in Range(included) :
         Cardinality({d \in {composing} \cup {Definition(n) : n \in Range(included)} :
                        f \in d.spreads}) >= 2

\* process_component has run on the script of a route component
ComponentProcessed ==
    /\ processor = "svelteKitProcessor" /\ filekind = "route" /\ pc = "done"
    /\ \A op \in Discoveries : discovery[op] = "done"

\* the places of the statements process_component writes
IsReactiveFetch(s) == s.type = "LabeledStatement" /\ s.source = "fetch"
ReactiveFetches == SelectSeq(script, IsReactiveFetch)
FetchPlaces == {k \in 1..Len(script) : IsReactiveFetch(script[k])}
ContextPlaces ==
    {k \in 1..Len(script) :
       script[k].type = "VariableDeclaration" /\ script[k].source = "getHoudiniContext"}
InputsPlaces == {k \in 1..Len(script) : script[k] = InputsStatement}

LeadingImports(body) == first_non_import(body)
ImportsAdded == Cardinality(ImportsIn(script)) - Cardinality(ImportsIn(original_script))

\* C20: once process_component has run, the imports that led the script and the
\* imports that were added all come first, and every statement process_component
\* wrote comes right after them: the declaration of the inputs, the declaration
\* of the context handle, then the reactive statements.
C20_InsertedAfterImports ==
    ComponentProcessed
    => LET at == LeadingImports(original_script) + ImportsAdded
           written == InputsPlaces \cup ContextPlaces \cup FetchPlaces
       IN  /\ \A k \in 1..at : script[k].type = "ImportDeclaration"
           /\ LeadingImports(script) = at
           /\ written = (at + 1)..(at + 2 + Len(queries))
           /\ \A k \in written : k > LeadingImports(script)
           /\ \A i \in InputsPlaces \cup ContextPlaces : \A f \in FetchPlaces : i < f
           /\ SubSeq(script, at + 3 + Len(queries), Len(script))
                = SubSeq(original_script, LeadingImports(original_script) + 1,
                         Len(original_script))

\* some needed imports were there, some were added, and a statement follows
C20_Witness ==
    /\ ComponentProcessed
    /\ LeadingImports(original_script) >= 2
    /\ ImportsAdded >= 2
    /\ Len(queries) >= 2
    /\ \E k \in 1..Len(script) : script[k] = UserStatement

\* a literal whose first definition is a query and that is the argument of a call
IsInlineQuery(tag) == IsQuery(tag.definitions[1]) /\ tag.parent = "CallExpression"

\* C21: the inline targets are the literals whose first definition is a query
\* and whose parent is a call expression, by the name of that first definition
\* and in walk order; a literal that starts with a mutation, a subscription or a
\* fragment, and a query literal that is no call argument, gives no target.
C21_InlineQueryLiterals ==
    discovery["find_inline_queries"] = "done"
    => LET literals == SelectSeq(component_tags, IsInlineQuery)
       IN  /\ Len(inline_queries) = Len(literals)
           /\ \A k \in 1..Len(literals) :
                inline_queries[k].name = literals[k].definitions[1].name
           /\ \A k \in 1..Len(inline_queries) :
                \E tag \in Range(component_tags) :
                   /\ IsInlineQuery(tag)
                   /\ tag.definitions[1].name = inline_queries[k].name

\* a fragment followed by a query in a call, and a query in a call: one target
C21_Witness ==
    /\ discovery["find_inline_queries"] = "done"
    /\ Len(component_tags) = 2 /\ Len(inline_queries) = 1
    /\ component_tags[1] = Tag(<<FragmentF, QueryC>>, "CallExpression")
    /\ IsInlineQuery(component_tags[2])

\* C22: the reference houdini_load[i] of an explicit-list target carries the
\* index at which the entry of the target's name stands in the houdini_load list
\* the route script exports.
C22_ExplicitIndex ==
    (Merged /\ NODE_ENV # "test" /\ module.status = "ok"
       /\ module.houdini_load.shape = "list")
    => \A k \in 1..Len(queries) :
         queries[k].store_id.expr = "MemberExpression"
         => LET i == queries[k].store_id.index
                items == module.houdini_load.items
            IN  /\ i + 1 <= Len(items)
                /\ EntryName(items[i + 1]) = queries[k].name

\* the input assignments of the generated body, in the order they stand
Assignments == SelectSeq(preload_fn, LAMBDA s : s.stmt = "assign")

\* C23: in a generated load, the input of every target that requires variables
\* is computed with the target's <Name>Variables function; no such target gets
\* the empty input.
C23_RequiredVariablesComputed ==
    /\ Len(Assignments) <= Len(queries)
    /\ \A k \in 1..Len(Assignments) :
         /\ Assignments[k].name = queries[k].name
         /\ queries[k].variables
              => /\ Assignments[k].computed
                 /\ Assignments[k].fn = query_variable_fn(queries[k].name)

\* a load was generated for a target that requires variables and one that does not
C23_Witness ==
    /\ AddLoadReturned /\ Synthesized
    /\ \E j, k \in 1..Len(Assignments) :
         /\ queries[j].variables /\ Assignments[j].computed
         /\ ~queries[k].variables /\ ~Assignments[k].computed

\* the load targets as the inputs of the pass alone give them: each discovery
\* operation applied to what the pass was started with
TargetsOfInputs ==
    merge_queries(
        IF processor = "svelteKitProcessor"
          THEN find_inline_queries(component_tags, original_script).targets
          ELSE find_inline_queries_SvelteKit(filekind = "route", component_tags,
                                             original_script).targets,
        find_page_query(page_query_file, original_script).target,
        IF processor = "svelteKitProcessor"
          THEN find_page_info(NODE_ENV, mock_page_info, module).info
          ELSE find_page_info_SvelteKit(NODE_ENV, mock_page_info, module).info)

\* C24: whatever the order in which the three discovery operations settle, the
\* merged targets are the ones the inputs give, and the fetches of the generated
\* load are dispatched in the order of these targets.
C24_OrderIndependent ==
    (Merged /\ \A op \in Discoveries : discovery[op] = "done")
    => /\ queries = TargetsOfInputs
       /\ Len(Fetches) <= Len(queries)
       /\ \A k \in 1..Len(Fetches) : Fetches[k].name = TargetsOfInputs[k].name
       /\ (AddLoadReturned /\ Synthesized) => Len(Fetches) = Len(queries)

\* a load with a fetch for a target of each of the three operations
C24_Witness ==
    /\ AddLoadReturned /\ Synthesized
    /\ inline_queries # <<>> /\ page_query # <<>> /\ page_info.load # <<>>
    /\ Len(Fetches) = 3
    /\ Fetches[1].name # Fetches[2].name

\* C25: in the revision with `go`, no pull is started once buildEnd was called,
\* whenever in the course of buildStart the call came.
C25_NoPullAfterBuildEnd == plugin = "go" => pullsAfterEnd = 0

\* C26: in the revision with `go`, at most two pulls are started after buildEnd,
\* and when every pull settles and every sleep is over the plugin comes to rest.
C26_PollingStops ==
    /\ [](plugin = "go" => pullsAfterEnd <= 2)
    /\ (plugin = "go" /\ ended)
         ~> (build \in {"returned", "rejected", "stopped"} /\ inflight = 0)

\* buildEnd came while getConfig was awaited; two pulls later the loop stopped
C26_Witness ==
    /\ plugin = "go" /\ ended /\ build = "stopped"
    /\ pulls = 2 /\ pullsAfterEnd = 2

\* C27: in the revision with `interval_id`, with a positive poll interval, the
\* plugin comes to rest after buildEnd.
C27_BuildEndStopsLoop ==
    (plugin = "interval_id" /\ ended /\ build \in {"poll_pull", "poll_wait"})
      ~> (build \in {"returned", "rejected", "stopped"} /\ inflight = 0)

\* C28: a pull is started only when none is in flight, and only by the resolved
\* config or by a sleep that is over; at most one pull is in flight.
C28_PullsNeverOverlap ==
    /\ [](inflight <= 1)
    /\ [][inflight' > inflight
            => /\ inflight = 0
               /\ build \in {"config", "first_wait", "poll_wait"}
               /\ build \in {"first_wait", "poll_wait"} => timeToWait > 0]_vars

\* the third pull of a buildStart is in flight
C28_Witness == pulls = 3 /\ inflight = 1 /\ build = "poll_pull"

\* C29: without an API url, with a schema path that is a glob, or with a null
\* interval, buildStart starts no pull; with an interval of zero or less it
\* starts one pull and is through; with a positive interval the first pull is
\* followed by a sleep of one interval, and the polling starts after it.
C29_BuildStartGuards ==
    IF \/ config.apiUrl = ""
       \/ config.schemaPath = "*.graphql"
       \/ config.schemaPollInterval = <<>>
      THEN pulls = 0 /\ build \in {"idle", "config", "returned"}
    ELSE IF config.schemaPollInterval[1] <= 0
      THEN /\ build \in {"idle", "config", "first_pull", "returned", "rejected"}
           /\ pulls = (IF build \in {"idle", "config"} THEN 0 ELSE 1)
    ELSE /\ build \in {"idle", "config"} => pulls = 0
         /\ build = "first_pull" => pulls = 1 /\ ENABLED PullSettles
         /\ build = "first_wait"
              => pulls = 1 /\ timeToWait = config.schemaPollInterval[1] /\ ENABLED SleepElapsed
         /\ build \in {"poll_pull", "poll_wait", "stopped"} => pulls >= 2
         /\ build = "returned" => FALSE
         /\ build = "rejected" => plugin = "interval_id"

\* a plain schema path and a positive interval: the first polling pull is in flight
C29_Witness ==
    /\ config.apiUrl # "" /\ config.schemaPath = "schema.json"
    /\ config.schemaPollInterval # <<>> /\ config.schemaPollInterval[1] > 0
    /\ build = "poll_pull" /\ pulls = 2

\* C30: in the revision with `go`, the sleep of the polling loop is called with
\* interval * (1 + k), k the pulls that returned a falsy state since the last
\* successful one: a pull that throws leaves k alone, and the loop stops for
\* nothing but buildEnd.
C30_BackoffWait ==
    plugin = "go"
    => /\ nbPullError = falsyRun
       /\ build = "poll_wait" => timeToWait = config.schemaPollInterval[1] * (1 + falsyRun)
       /\ build = "poll_wait" => ENABLED SleepElapsed
       /\ build # "rejected"
       /\ build = "stopped" => ended

\* two failed pulls, then one that throws: the loop sleeps three intervals
C30_Witness ==
    /\ plugin = "go" /\ build = "poll_wait"
    /\ lastState = "throws" /\ falsyRun = 2
    /\ timeToWait = 3 * config.schemaPollInterval[1] /\ config.schemaPollInterval[1] = 2

====
